---------------------------- MODULE Spec2Model ----------------------------
(***************************************************************************)
(* Model of the Google Drive MCP server.  The repository holds two         *)
(* variants of the server: src/gdrive_mcp_server/auth_setup.py (the        *)
(* FastMCP server with tools search_files / get_file) and                  *)
(* src/gdrive_mcp_server/server.py (commands search / download).  Both are *)
(* modelled; the variable `variant` says which one the process runs.       *)
(*                                                                         *)
(* Python values are modelled as follows.                                  *)
(*   - None is the string "None" where the value is otherwise a string,    *)
(*     and the empty sequence <<>> where it is otherwise an object (an     *)
(*     object o is then <<o>>).                                            *)
(*   - An exception is [cls, msg, cause]: its class, str(exc) as the       *)
(*     sequence of the fragments the f-string is built from, and the       *)
(*     `from err` chain (<<>> or <<exception>>).                           *)
(*   - The outcome of a call is [raised, val, exc] plus the observable     *)
(*     interactions it made (deserialisation attempts, requests).          *)
(*   - A dict is a record / function on its keys.                          *)
(***************************************************************************)
EXTENDS Integers, Sequences, FiniteSets, TLC

VARIABLES
    variant,    \* which server module the process runs
    tokenFile,  \* the persisted token file (never written by the server)
    now,        \* wall clock when the credentials are validated
    pc,         \* "init" (main not yet run), "serving" (mcp.run), "crashed"
    service,    \* self.service: <<>> or <<[creds |-> credentials]>>
    fatal,      \* <<>> or <<exc>>: the exception that propagated out of main()
    attempts,   \* deserialisation attempts made while loading, in order
    idp,        \* requests made to the identity provider, with their outcome
    last,       \* the tool invocation being answered: arguments, requests
                \* sent to Drive, outcome; NoCall between invocations
    held        \* the continuation token the host holds from the last page

vars ==
    <<variant, tokenFile, now, pc, service, fatal, attempts, idp, last, held>>

-----------------------------------------------------------------------------
(* Bounds of the model *)

\* wall-clock values and expiry timestamps range over 0..MaxTime
MaxTime == 2
\* lifetime (expires_in) the identity provider grants: 1..MaxLifetime
MaxLifetime == 1
\* number of chunks a download is split into: 1..MaxChunks
MaxChunks == 2
\* number of file entries in a listing response: 0..MaxFiles
MaxFiles == 1

-----------------------------------------------------------------------------
(* Python plumbing *)

None == "None"

Ret(v) == [raised |-> FALSE, val |-> v, exc |-> <<>>]

Raise(e) == [raised |-> TRUE, val |-> <<>>, exc |-> <<e>>]

Exc(cls, msg, cause) == [cls |-> cls, msg |-> msg, cause |-> cause]

\* outcome r together with the load attempts a and the provider calls n made
WithLog(r, a, n) == [raised |-> r.raised, val |-> r.val, exc |-> r.exc,
                     attempts |-> a, idp |-> n]

Range(s) == {s[i] : i \in DOMAIN s}

\* Path.suffix.lower()
lower(suffix) == IF suffix = ".JSON" THEN ".json" ELSE suffix

-----------------------------------------------------------------------------
(* google.oauth2.credentials.Credentials, as the servers use it *)

\* creds.expired: an expiry is set and has been reached
expired(creds) == creds.expiry # <<>> /\ now >= creds.expiry[1]

\* creds.valid: there is an access token and it has not expired
valid(creds) == creds.token # None /\ ~expired(creds)

\* creds.refresh(Request()): one round trip to the identity provider, which
\* answers with a new access token and lifetime, rejects the refresh token
\* (RefreshError), or cannot be reached (TransportError).  The credential is
\* mutated in place: access token and expiry replaced, refresh token kept.
refresh(creds, answer) ==
    IF answer.kind = "ok"
    THEN Ret(<<[token |-> "access-new",
               refresh_token |-> creds.refresh_token,
               expiry |-> <<now + answer.expires_in>>]>>)
    ELSE IF answer.kind \in {"revoked", "rejected"}
    THEN Raise(Exc("RefreshError", <<answer.kind>>, <<>>))
    ELSE Raise(Exc("TransportError", <<answer.kind>>, <<>>))

\* build("drive", "v3", credentials=creds)
build(creds) == <<[creds |-> creds]>>

-----------------------------------------------------------------------------
(* Reading the token file *)

\* Credentials.from_authorized_user_file(path): opens and parses JSON
from_authorized_user_file(file) ==
    IF ~file.exists
    THEN Raise(Exc("FileNotFoundError", <<"No such file or directory">>, <<>>))
    ELSE IF file.format = "json"
    THEN Ret(file.obj)
    ELSE Raise(Exc("ValueError", <<"not JSON">>, <<>>))

\* open(path, "rb") and pickle.load
pickle_load(file) ==
    IF ~file.exists
    THEN Raise(Exc("FileNotFoundError", <<"No such file or directory">>, <<>>))
    ELSE IF file.format = "pickle"
    THEN Ret(file.obj)
    ELSE Raise(Exc("UnpicklingError", <<"invalid load key">>, <<>>))

\* auth_setup.py: the JSON loader wraps every failure in a RuntimeError
_load_credentials_from_json(file) ==
    LET r == from_authorized_user_file(file) IN
    IF r.raised
    THEN Raise(Exc("RuntimeError",
                   <<"Error loading token JSON file">> \o r.exc[1].msg, r.exc))
    ELSE r

\* auth_setup.py: the pickle loader wraps UnpicklingError and EOFError only
_load_credentials_from_pickle(file) ==
    LET r == pickle_load(file) IN
    IF r.raised /\ r.exc[1].cls \in {"UnpicklingError", "EOFError"}
    THEN Raise(Exc("RuntimeError",
                   <<"Error loading token pickle file">> \o r.exc[1].msg, r.exc))
    ELSE r

\* server.py: the loaders let the library's exception through
_load_credentials_from_json_server(file) == from_authorized_user_file(file)

_load_credentials_from_pickle_server(file) == pickle_load(file)

-----------------------------------------------------------------------------
(* Credential resolution *)

\* the dispatch on the file extension in auth_setup.py: .json, .pickle and
\* .pkl name their format; any other extension tries JSON, then pickle
load_token(file) ==
    LET suffix == lower(file.suffix) IN
    IF suffix = ".json"
    THEN WithLog(_load_credentials_from_json(file), <<"json">>, <<>>)
    ELSE IF suffix \in {".pickle", ".pkl"}
    THEN WithLog(_load_credentials_from_pickle(file), <<"pickle">>, <<>>)
    ELSE LET j == _load_credentials_from_json(file) IN
         IF j.raised
         THEN WithLog(_load_credentials_from_pickle(file),
                      <<"json", "pickle">>, <<>>)
         ELSE WithLog(j, <<"json">>, <<>>)

\* the dispatch on the file extension in server.py: any extension other than
\* .json and .pickle is refused without reading the file
load_token_server(file) ==
    LET suffix == lower(file.suffix) IN
    IF suffix = ".json"
    THEN WithLog(_load_credentials_from_json_server(file), <<"json">>, <<>>)
    ELSE IF suffix = ".pickle"
    THEN WithLog(_load_credentials_from_pickle_server(file), <<"pickle">>, <<>>)
    ELSE WithLog(Raise(Exc("RuntimeError",
                           <<"Unsupported token file format",
                             "Expected .json or .pickle">>, <<>>)),
                 <<>>, <<>>)

\* a slip in the validity test: the second `not` dropped
not_valid_dropped_not(creds) == creds = <<>> \/ valid(creds[1])

\* `not creds or not creds.valid`
not_valid(creds) == creds = <<>> \/ ~valid(creds[1])

\* a slip in the refresh test: the refresh token is not looked at
refreshable_any_expired(creds) == creds # <<>> /\ expired(creds[1])

\* `creds and creds.expired and creds.refresh_token`
refreshable(creds) ==
    creds # <<>> /\ expired(creds[1]) /\ creds[1].refresh_token # None

\* auth_setup.py: validate the loaded credentials, refreshing them if possible
validate(creds, answer) ==
    IF not_valid(creds)
    THEN IF refreshable(creds)
         THEN LET r == refresh(creds[1], answer) IN
              IF r.raised /\ r.exc[1].cls = "RefreshError"
              THEN WithLog(Raise(Exc("RuntimeError",
                        <<"Error refreshing token">> \o r.exc[1].msg
                        \o <<"Please run auth_setup.py again to re-authenticate">>,
                        r.exc)), <<>>, <<answer.kind>>)
              ELSE WithLog(r, <<>>, <<answer.kind>>)
         ELSE WithLog(Raise(Exc("RuntimeError",
                   <<"Invalid or missing credentials",
                     "Please run auth_setup.py to set up authentication">>,
                   <<>>)), <<>>, <<>>)
    ELSE WithLog(Ret(creds), <<>>, <<>>)

\* server.py: the same, with the RefreshError caught around both branches
validate_server(creds, answer) ==
    IF not_valid(creds)
    THEN IF refreshable(creds)
         THEN LET r == refresh(creds[1], answer) IN
              IF r.raised /\ r.exc[1].cls = "RefreshError"
              THEN WithLog(Raise(Exc("RuntimeError",
                        <<"Error refreshing token">> \o r.exc[1].msg
                        \o <<"Please run auth_setup.py again to re-authenticate">>,
                        r.exc)), <<>>, <<answer.kind>>)
              ELSE WithLog(r, <<>>, <<answer.kind>>)
         ELSE WithLog(Raise(Exc("RuntimeError",
                   <<"Invalid or missing credentials",
                     "Please run auth_setup.py">>, <<>>)), <<>>, <<>>)
    ELSE WithLog(Ret(creds), <<>>, <<>>)

\* auth_setup.py GoogleDriveClient._get_credentials
_get_credentials(file, answer) ==
    IF ~file.exists
    THEN WithLog(Raise(Exc("FileNotFoundError",
              <<"Token file not found",
                "Please run auth_setup.py first to set up authentication">>,
              <<>>)), <<>>, <<>>)
    ELSE LET ld == load_token(file) IN
         IF ld.raised
         THEN WithLog(Raise(Exc("RuntimeError",
                   <<"Could not load token file",
                     "Supported formats: .json, .pickle">>, ld.exc)),
                   ld.attempts, <<>>)
         ELSE LET v == validate(ld.val, answer) IN
              WithLog(v, ld.attempts, v.idp)

\* auth_setup.py GoogleDriveClient._get_service: every failure is wrapped
_get_service(file, answer) ==
    LET c == _get_credentials(file, answer) IN
    IF c.raised
    THEN WithLog(Raise(Exc("RuntimeError",
              <<"Error initializing Google Drive service">> \o c.exc[1].msg,
              c.exc)), c.attempts, c.idp)
    ELSE WithLog(Ret(build(c.val)), c.attempts, c.idp)

\* server.py GoogleDriveClient._load_service
_load_service(file, answer) ==
    LET ld == load_token_server(file) IN
    IF ld.raised
    THEN WithLog(Raise(Exc("RuntimeError",
              <<"Could not load token file",
                "Supported formats: .json, .pickle">>, ld.exc)),
              ld.attempts, <<>>)
    ELSE LET v == validate_server(ld.val, answer) IN
         IF v.raised
         THEN WithLog(v, ld.attempts, v.idp)
         ELSE WithLog(Ret(build(v.val)), ld.attempts, v.idp)

\* GoogleDriveClient.__init__ of the running variant: self.service = ...
NewClient(file, answer) ==
    IF variant = "auth_setup"
    THEN _get_service(file, answer)
    ELSE _load_service(file, answer)

-----------------------------------------------------------------------------
(* The environment: token files, provider answers *)

Suffixes == {".json", ".JSON", ".pickle", ".pkl", ".tok"}

Expiries == {<<>>} \cup {<<t>> : t \in 0..MaxTime}

\* a deserialised Credentials object
Credentials ==
    [token : {None, "access-old"},
     refresh_token : {None, "refresh-1"},
     expiry : Expiries]

\* the token file: absent, JSON (always a Credentials object), a pickle (a
\* Credentials object or a pickled None), or bytes neither loader accepts
TokenFiles ==
    [exists : {FALSE}, suffix : Suffixes, format : {"garbage"}, obj : {<<>>}]
    \cup [exists : {TRUE}, suffix : Suffixes, format : {"garbage"}, obj : {<<>>}]
    \cup [exists : {TRUE}, suffix : Suffixes, format : {"json"},
          obj : {<<c>> : c \in Credentials}]
    \cup [exists : {TRUE}, suffix : Suffixes, format : {"pickle"},
          obj : {<<>>} \cup {<<c>> : c \in Credentials}]

\* what the identity provider may answer to a refresh request
ProviderAnswers ==
    [kind : {"ok"}, expires_in : 1..MaxLifetime]
    \cup [kind : {"revoked", "rejected", "network"}, expires_in : {0}]

NoCall ==
    [op |-> "none", call |-> <<>>, remote |-> <<>>, sent |-> <<>>,
     out |-> Ret(<<>>)]

-----------------------------------------------------------------------------
(* The process *)

Init ==
    /\ variant \in {"auth_setup", "server"}
    /\ tokenFile \in TokenFiles
    /\ now \in 1..MaxTime
    /\ pc = "init"
    /\ service = <<>>
    /\ fatal = <<>>
    /\ attempts = <<>>
    /\ idp = <<>>
    /\ last = NoCall
    /\ held = None

\* main(): construct the client; an exception leaves main() and ends the
\* process, otherwise the server starts serving tool invocations
Start ==
    /\ pc = "init"
    /\ \E answer \in ProviderAnswers :
         LET r == NewClient(tokenFile, answer) IN
         /\ attempts' = r.attempts
         /\ idp' = r.idp
         /\ IF r.raised
            THEN /\ pc' = "crashed"
                 /\ fatal' = r.exc
                 /\ service' = <<>>
            ELSE /\ pc' = "serving"
                 /\ fatal' = <<>>
                 /\ service' = r.val
    /\ UNCHANGED <<variant, tokenFile, now, last, held>>

-----------------------------------------------------------------------------
(* The Drive API as the servers see it *)

\* file resources as files().list / files().get return them for
\* fields = id, name, mimeType, webViewLink; Drive omits webViewLink for a
\* file that has no view link
FileResources ==
    { [id |-> "abc123", name |-> "report.txt", mimeType |-> "text/plain",
       webViewLink |-> "https://drive/abc123"],
      [id |-> "xyz789", name |-> "budget.bin",
       mimeType |-> "application/octet-stream"] }

SeqsUpTo(S, n) == UNION {[1..k -> S] : k \in 0..n}

PageTokens == {None, "page-2"}

\* answers to files().list(...).execute(): an HttpError, or a page
ListAnswers ==
    [ok : {FALSE}, files : {<<>>}, nextPageToken : {None}]
    \cup [ok : {TRUE}, files : SeqsUpTo(FileResources, MaxFiles),
          nextPageToken : PageTokens]

\* answers to files().get(...).execute(): an HttpError, or the resource
GetAnswers ==
    [ok : {FALSE}, resource : {<<>>}]
    \cup [ok : {TRUE}, resource : {<<f>> : f \in FileResources}]

\* the bytes one next_chunk() call may deliver: "A", and the two bytes of the
\* UTF-8 encoding of U+00E9, together or split over two chunks
ChunkValues == {<<65>>, <<195>>, <<169>>, <<195, 169>>}

\* a media download: the chunks the remote delivers, and the chunk request
\* that fails with an HttpError (0: none does)
Downloads ==
    UNION { [chunks : {c}, failAt : 0..Len(c)] :
            c \in SeqsUpTo(ChunkValues, MaxChunks) \ {<<>>} }

HttpError == Exc("HttpError", <<"HttpError 403">>, <<>>)

KeyError(key) == Exc("KeyError", <<key>>, <<>>)

\* item.get(key)
DictGet(item, key) == IF key \in DOMAIN item THEN item[key] ELSE None

\* bytes.decode("utf-8"), for one- and two-byte sequences (ChunkValues holds
\* no lead byte of a longer one): the code points, or <<-1>> for a
\* UnicodeDecodeError
RECURSIVE decode_utf8(_)
decode_utf8(bs) ==
    IF bs = <<>> THEN <<>>
    ELSE IF bs[1] < 128
    THEN LET rest == decode_utf8(Tail(bs)) IN
         IF rest = <<-1>> THEN rest ELSE <<bs[1]>> \o rest
    ELSE IF /\ bs[1] >= 194 /\ bs[1] <= 223 /\ Len(bs) >= 2
            /\ bs[2] >= 128 /\ bs[2] <= 191
    THEN LET rest == decode_utf8(Tail(Tail(bs))) IN
         IF rest = <<-1>> THEN rest
         ELSE <<(bs[1] - 192) * 64 + (bs[2] - 128)>> \o rest
    ELSE <<-1>>

\* a slip in the download loop: a failing chunk request ends the loop as if
\* the download were complete
RECURSIVE next_chunk_loop_swallow(_, _, _)
next_chunk_loop_swallow(dl, i, fh) ==
    IF dl.failAt = i
    THEN [raised |-> FALSE, fh |-> fh, n |-> i]
    ELSE IF i = Len(dl.chunks)
    THEN [raised |-> FALSE, fh |-> fh \o dl.chunks[i], n |-> i]
    ELSE next_chunk_loop_swallow(dl, i + 1, fh \o dl.chunks[i])

\* `while not done: _, done = downloader.next_chunk()`: the i-th call appends
\* the i-th chunk to fh and reports done on the last one; a failing call
\* raises out of the loop.  n counts the chunk requests made.
RECURSIVE next_chunk_loop(_, _, _)
next_chunk_loop(dl, i, fh) ==
    IF dl.failAt = i
    THEN [raised |-> TRUE, fh |-> fh, n |-> i]
    ELSE IF i = Len(dl.chunks)
    THEN [raised |-> FALSE, fh |-> fh \o dl.chunks[i], n |-> i]
    ELSE next_chunk_loop(dl, i + 1, fh \o dl.chunks[i])

GetRequest(file_id) == [api |-> "files.get", fileId |-> file_id]

MediaRequests(file_id, n) ==
    [i \in 1..n |-> [api |-> "files.get_media", fileId |-> file_id, chunk |-> i]]

WithSent(r, sent) ==
    [raised |-> r.raised, val |-> r.val, exc |-> r.exc, sent |-> sent]

\* str(err) returned as {"error": ...}
ErrorPayload(e) == Ret([error |-> e.msg])

-----------------------------------------------------------------------------
(* auth_setup.py: GoogleDriveClient.search_files, get_file and the tools *)

\* the dict one listing entry is reshaped into; a missing key raises
FormatItem(item) ==
    IF {"id", "name", "mimeType", "webViewLink"} \subseteq DOMAIN item
    THEN Ret([id |-> item["id"], name |-> item["name"],
              mime_type |-> item["mimeType"],
              web_view_link |-> item["webViewLink"]])
    ELSE Raise(KeyError(CHOOSE k \in {"id", "name", "mimeType", "webViewLink"}
                                   \ DOMAIN item : TRUE))

_format_search_response(response) ==
    LET items == response.files
        bad == {i \in DOMAIN items : FormatItem(items[i]).raised}
    IN IF bad # {}
       THEN Raise(FormatItem(items[CHOOSE i \in bad : \A j \in bad : i <= j]).exc[1])
       ELSE Ret([files |-> [i \in DOMAIN items |-> FormatItem(items[i]).val],
                 next_page_token |-> response.nextPageToken])

search_files(query, page_size, page_token, answer) ==
    LET sent == <<[api |-> "files.list", q |-> <<"name contains", query>>,
                   pageSize |-> page_size, pageToken |-> page_token]>>
    IN IF ~answer.ok
       THEN WithSent(ErrorPayload(HttpError), sent)
       ELSE LET f == _format_search_response(answer) IN
            IF f.raised
            THEN WithSent(ErrorPayload(f.exc[1]), sent)
            ELSE WithSent(f, sent)

get_file(file_id, meta, dl) ==
    IF ~meta.ok
    THEN WithSent(ErrorPayload(HttpError), <<GetRequest(file_id)>>)
    ELSE LET d == next_chunk_loop(dl, 1, <<>>)
             sent == <<GetRequest(file_id)>> \o MediaRequests(file_id, d.n)
             metadata == meta.resource[1]
             text == decode_utf8(d.fh)
         IN IF d.raised
            THEN WithSent(ErrorPayload(HttpError), sent)
            ELSE IF FormatItem(metadata).raised
            THEN WithSent(ErrorPayload(FormatItem(metadata).exc[1]), sent)
            ELSE IF text = <<-1>>
            THEN WithSent(ErrorPayload(Exc("UnicodeDecodeError",
                     <<"'utf-8' codec can't decode">>, <<>>)), sent)
            ELSE WithSent(Ret([metadata |-> FormatItem(metadata).val,
                               content |-> text]), sent)

\* the tool search_files(query, page_size=10): no page token parameter
tool_search_files(call, answer) ==
    search_files(call.query, call.page_size, None, answer)

\* the tool get_file(file_id)
tool_get_file(call, meta, dl) == get_file(call.file_id, meta, dl)

-----------------------------------------------------------------------------
(* server.py: GoogleDriveClient.search_files, download_file, the commands *)

_format_search_response_server(response) ==
    LET items == response.files
        bad == {i \in DOMAIN items :
                  ~({"id", "name", "mimeType"} \subseteq DOMAIN items[i])}
    IN IF bad # {}
       THEN Raise(KeyError(CHOOSE k \in {"id", "name", "mimeType"}
              \ DOMAIN items[CHOOSE i \in bad : \A j \in bad : i <= j] : TRUE))
       ELSE Ret([files |-> [i \in DOMAIN items |->
                    [id |-> items[i]["id"], name |-> items[i]["name"],
                     mimeType |-> items[i]["mimeType"],
                     webViewLink |-> DictGet(items[i], "webViewLink")]]])

search_files_server(query, answer) ==
    LET sent == <<[api |-> "files.list", q |-> <<query>>]>>
        f == _format_search_response_server(answer)
    IN IF ~answer.ok
       THEN WithSent(Raise(Exc("RuntimeError",
                <<"Error searching files">> \o HttpError.msg, <<HttpError>>)),
                sent)
       ELSE IF f.raised
       THEN WithSent(Raise(Exc("RuntimeError",
                <<"Error searching files">> \o f.exc[1].msg, f.exc)), sent)
       ELSE WithSent(f, sent)

download_file(file_id, meta, dl) ==
    IF ~meta.ok
    THEN WithSent(Raise(Exc("RuntimeError",
             <<"Error downloading file">> \o HttpError.msg, <<HttpError>>)),
             <<GetRequest(file_id)>>)
    ELSE LET d == next_chunk_loop(dl, 1, <<>>)
             sent == <<GetRequest(file_id)>> \o MediaRequests(file_id, d.n)
             metadata == meta.resource[1]
         IN IF d.raised
            THEN WithSent(Raise(Exc("RuntimeError",
                     <<"Error downloading file">> \o HttpError.msg,
                     <<HttpError>>)), sent)
            ELSE WithSent(Ret([metadata |->
                        [id |-> metadata["id"], name |-> metadata["name"],
                         mimeType |-> metadata["mimeType"],
                         webViewLink |-> DictGet(metadata, "webViewLink")],
                     content |-> d.fh]), sent)

\* the command search(query)
command_search(call, answer) == search_files_server(call.query, answer)

\* the command download(file_id)
command_download(call, meta, dl) == download_file(call.file_id, meta, dl)

-----------------------------------------------------------------------------
(* Tool invocations by the host *)

DefaultPageSize == 10

\* what the host sends with a search: the query, a page size, and the
\* continuation token it holds from an earlier page (None: first page)
SearchCalls ==
    [query : {"report", "budget"}, page_size : {1, DefaultPageSize},
     page_token : {None, held}]

GetCalls == [file_id : {"abc123", "xyz789"}]

\* one search invocation, served to completion
Search ==
    /\ pc = "serving"
    /\ last = NoCall
    /\ \E call \in SearchCalls, answer \in ListAnswers :
         LET r == IF variant = "auth_setup"
                  THEN tool_search_files(call, answer)
                  ELSE command_search(call, answer)
         IN last' = [op |-> "search", call |-> call, remote |-> answer,
                     sent |-> r.sent,
                     out |-> [raised |-> r.raised, val |-> r.val, exc |-> r.exc]]
    /\ UNCHANGED <<variant, tokenFile, now, pc, service, fatal, attempts, idp,
                   held>>

\* one get_file / download invocation, served to completion
GetFile ==
    /\ pc = "serving"
    /\ last = NoCall
    /\ \E call \in GetCalls, meta \in GetAnswers, dl \in Downloads :
         LET r == IF variant = "auth_setup"
                  THEN tool_get_file(call, meta, dl)
                  ELSE command_download(call, meta, dl)
         IN last' = [op |-> "get_file", call |-> call,
                     remote |-> [meta |-> meta, dl |-> dl],
                     sent |-> r.sent,
                     out |-> [raised |-> r.raised, val |-> r.val, exc |-> r.exc]]
    /\ UNCHANGED <<variant, tokenFile, now, pc, service, fatal, attempts, idp,
                   held>>

\* the continuation token of a returned page, None if the result has none
NextPageOf(out) ==
    IF ~out.raised /\ "next_page_token" \in DOMAIN out.val
    THEN out.val["next_page_token"]
    ELSE None

\* the host receives the answer (a result, an {error} payload or the raised
\* exception as the framework reports it); the server keeps serving
Deliver ==
    /\ pc = "serving"
    /\ last # NoCall
    /\ held' = IF last.op = "search" THEN NextPageOf(last.out) ELSE held
    /\ last' = NoCall
    /\ UNCHANGED <<variant, tokenFile, now, pc, service, fatal, attempts, idp>>

Next == Start \/ Search \/ GetFile \/ Deliver

Spec == Init /\ [][Next]_vars

-----------------------------------------------------------------------------
(* Vocabulary of the properties *)

\* the error kind of the specification's taxonomy an exception surfaces as,
\* read off the message the user sees
ErrorKind(e) ==
    IF "Token file not found" \in Range(e.msg) THEN "NotConfigured"
    ELSE IF "Could not load token file" \in Range(e.msg) THEN "CorruptToken"
    ELSE IF "Error refreshing token" \in Range(e.msg) THEN "RefreshFailed"
    ELSE IF "Invalid or missing credentials" \in Range(e.msg) THEN "Invalid"
    ELSE "Other"

\* the exceptions chained below e by `raise ... from err`, e included
RECURSIVE Chain(_)
Chain(e) == {e} \cup (IF e.cause = <<>> THEN {} ELSE Chain(e.cause[1]))

\* what deserialising the token file yields under the running variant
LoadResult ==
    IF variant = "auth_setup"
    THEN load_token(tokenFile)
    ELSE load_token_server(tokenFile)

\* the token file exists and deserialises to a Credentials object
Loaded == tokenFile.exists /\ ~LoadResult.raised /\ LoadResult.val # <<>>

LoadedCreds == LoadResult.val[1]

Resolved == pc # "init"

ResolveFailedWith(kind) ==
    pc = "crashed" /\ fatal # <<>> /\ ErrorKind(fatal[1]) = kind

ExpiredRefreshable ==
    Loaded /\ expired(LoadedCreds) /\ LoadedCreds.refresh_token # None

\* the bytes of a download, in the order the remote delivers them
RECURSIVE Concat(_)
Concat(chunks) ==
    IF chunks = <<>> THEN <<>> ELSE Head(chunks) \o Concat(Tail(chunks))

\* the invocation being answered failed: an exception or an {error} payload
CallFailed == last.out.raised \/ "error" \in DOMAIN last.out.val

HasContent == ~last.out.raised /\ "content" \in DOMAIN last.out.val

-----------------------------------------------------------------------------
(* Properties *)

\* C1: for a loaded credential that is expired and has a refresh token,
\* resolve makes exactly one refresh call; if the provider succeeds the
\* client holds a credential whose expiry is strictly later than before; if
\* the refresh fails, resolve fails with RefreshFailed and nothing further
\* is called.
C1_RefreshOnce ==
    (Resolved /\ ExpiredRefreshable) =>
        /\ Len(idp) = 1
        /\ idp[1] = "ok" =>
              /\ pc = "serving"
              /\ service[1].creds[1].expiry[1] > LoadedCreds.expiry[1]
        /\ idp[1] # "ok" =>
              /\ ResolveFailedWith("RefreshFailed")
              /\ last = NoCall

\* C2: whatever the kind of refresh failure, resolve fails with RefreshFailed
\* and the error carries the underlying cause and the hint to re-run setup.
C2_RefreshFailureKind ==
    (Resolved /\ idp # <<>> /\ idp[1] # "ok") =>
        /\ ResolveFailedWith("RefreshFailed")
        /\ idp[1] \in Range(fatal[1].msg)
        /\ \E c \in Chain(fatal[1]) : c.msg = <<idp[1]>>
        /\ \E m \in Range(fatal[1].msg) :
              m = "Please run auth_setup.py again to re-authenticate"

\* C3: with no token file, resolve fails with NotConfigured and the "run
\* setup first" message, before any deserialisation attempt and without any
\* network call.
C3_AbsentTokenFile ==
    (Resolved /\ ~tokenFile.exists) =>
        /\ ResolveFailedWith("NotConfigured")
        /\ "Please run auth_setup.py first to set up authentication"
              \in Range(fatal[1].msg)
        /\ attempts = <<>>
        /\ idp = <<>>

\* C4: a loaded credential that is valid is returned unchanged (same access
\* token, refresh token and expiry) and resolve makes no network call.
C4_ValidUnchanged ==
    (Resolved /\ Loaded /\ valid(LoadedCreds)) =>
        /\ pc = "serving"
        /\ service = <<[creds |-> <<LoadedCreds>>]>>
        /\ idp = <<>>

C4_Witness ==
    /\ pc = "serving"
    /\ Loaded
    /\ valid(LoadedCreds)
    /\ LoadedCreds.refresh_token # None
    /\ service[1].creds[1] = LoadedCreds

\* C5: a loaded credential that is not valid and has no refresh path (not
\* expired, expired without a refresh token, or no credential object at
\* all) makes resolve fail with Invalid without any call to the identity
\* provider; a refresh call is made only for a credential that is expired
\* and has a refresh token.
C5_InvalidNoRefresh ==
    /\ (Resolved /\ Loaded /\ ~valid(LoadedCreds) /\ ~ExpiredRefreshable) =>
          /\ ResolveFailedWith("Invalid")
          /\ idp = <<>>
    /\ (Resolved /\ tokenFile.exists /\ ~LoadResult.raised
           /\ LoadResult.val = <<>>) =>
          /\ ResolveFailedWith("Invalid")
          /\ idp = <<>>
    /\ idp # <<>> => ExpiredRefreshable

C5_Witness ==
    /\ Loaded
    /\ expired(LoadedCreds)
    /\ LoadedCreds.refresh_token = None
    /\ ResolveFailedWith("Invalid")
    /\ idp = <<>>

\* C6: for an existing token file whose extension is not a known one,
\* resolve attempts JSON first and pickle only after the JSON attempt
\* failed; it fails with CorruptToken exactly when every attempted format
\* fails, and loads when either format parses.
C6_UnknownExtension ==
    (Resolved /\ tokenFile.exists
        /\ lower(tokenFile.suffix) \notin {".json", ".pickle", ".pkl"}) =>
        /\ attempts # <<>>
        /\ attempts[1] = "json"
        /\ "pickle" \in Range(attempts) <=>
              (attempts = <<"json", "pickle">> /\ tokenFile.format # "json")
        /\ ResolveFailedWith("CorruptToken") <=> tokenFile.format = "garbage"

\* C7: get_file never partially succeeds: when the metadata lookup or a
\* chunk request fails, the call ends in an error, no request follows the
\* failed one, and no content is returned; content is returned only by a
\* call in which every step succeeded.
C7_NoPartialResult ==
    last.op = "get_file" =>
        LET meta == last.remote.meta
            dl == last.remote.dl
        IN /\ ~meta.ok =>
                 /\ CallFailed /\ ~HasContent
                 /\ last.sent = <<GetRequest(last.call.file_id)>>
           /\ (meta.ok /\ dl.failAt > 0) =>
                 /\ CallFailed /\ ~HasContent
                 /\ Len(last.sent) = 1 + dl.failAt
                 /\ last.sent[Len(last.sent)].chunk = dl.failAt
           /\ HasContent => (meta.ok /\ dl.failAt = 0)

C7_Witness ==
    /\ last.op = "get_file"
    /\ last.remote.meta.ok
    /\ Len(last.remote.dl.chunks) = MaxChunks
    /\ last.remote.dl.failAt = MaxChunks
    /\ CallFailed
    /\ Len(last.sent) = 1 + MaxChunks

\* C8: for a download of N chunks that completes on the Nth, get_file
\* requests chunks until completion is signalled and returns content that is
\* exactly the chunks concatenated in received order.
C8_ContentIsConcatenation ==
    (last.op = "get_file" /\ last.remote.meta.ok
        /\ last.remote.dl.failAt = 0) =>
        /\ Len(last.sent) = 1 + Len(last.remote.dl.chunks)
        /\ HasContent
        /\ last.out.val["content"] = Concat(last.remote.dl.chunks)

\* the page token a listing request carries, None if it carries none
SentToken(req) == IF "pageToken" \in DOMAIN req THEN req["pageToken"] ELSE None

\* C9: search passes the continuation token through unchanged both ways:
\* the listing request carries exactly the token the caller supplies (none
\* if none), and a token in the remote response is returned unchanged.
C9_PageTokenPassthrough ==
    last.op = "search" =>
        /\ SentToken(last.sent[1]) = last.call.page_token
        /\ (last.remote.ok /\ ~CallFailed) =>
              NextPageOf(last.out) = last.remote.nextPageToken

\* C10: no failure is fatal to the process: every failure, a credential
\* resolution failure included, is returned to the caller of that one call
\* as an {error: string} payload, and the host can go on invoking tools.
C10_NoFatalFailure ==
    /\ pc # "crashed"
    /\ (last.op # "none" /\ CallFailed) =>
          (~last.out.raised /\ DOMAIN last.out.val = {"error"})

=============================================================================
